---- MODULE Spec2Model ----
(***************************************************************************)
(* Model of the service layer of the runtime package                      *)
(* (src/packages/runtime/services/ServiceLayer.ts).                       *)
(*                                                                         *)
(* The layer owns a list of service representations, a lookup index and   *)
(* an index of declared UI dependencies.  start() constructs every        *)
(* service depth first, destroy() tears them down with reference counts,  *)
(* getService() answers dynamic lookups of declared dependencies.         *)
(*                                                                         *)
(* start() and destroy() are recursive; the recursion is modelled by an   *)
(* explicit call stack, one step per call of createService /              *)
(* destroyService and one step per return, so that the states in the      *)
(* middle of a construction or destruction are visible to invariants.     *)
(* The layer is single threaded: while the stack is not empty only the    *)
(* step of the top frame is enabled.                                      *)
(*                                                                         *)
(* ServiceRepr, verifyDependencies and the lookup index are imported by   *)
(* ServiceLayer.ts but their code is not part of the sources at hand;     *)
(* they are modelled after the specification (sections 3, 4.1 - 4.3).     *)
(***************************************************************************)
EXTENDS Integers, Sequences, FiniteSets, TLC

\* ------------------------------------------------------------------ bounds
\* Total number of declared dependencies (edges) of a layer in the
\* dependency-graph family.
MaxEdges == 3
\* Number of start() calls that pass the state guard in one run.
MaxStarts == 2
\* Number of providers, and of UI references declared by package pkgA, in
\* the lookup family.
MaxProviders == 2

\* The services of a layer in the dependency-graph family, in the order of
\* the layer's service list.
GraphServices == {1, 2, 3}

\* ------------------------------------------------------------ input values
\* qualifier == null
Absent == "absent"

Qualifiers == {Absent, "v1", "v2"}

\* Interface provided by service n of the dependency-graph family.
InterfaceOf(n) == <<"I1", "I2", "I3", "I4">>[n]

InterfaceSpec(i, q) == [interfaceName |-> i, qualifier |-> q]

\* What providers register and consumers declare in the lookup family.
LookupSpecs == {InterfaceSpec("X", q) : q \in Qualifiers}

\* Arguments of getService.
QueryPackages == {"pkgA", "pkgB", "pkgC"}
QuerySpecs == LookupSpecs \cup {InterfaceSpec("Y", Absent)}

SeqsUpTo(n, S) == UNION {[1..k -> S] : k \in 0..n}

\* ------------------------------------------------------------------- state
VARIABLES
    packages,             \* readonly PackageRepr[] handed to the constructor
    phase,                \* "new": before the constructor, "built", "build-error"
    allServices,          \* ServiceLayer.allServices
    serviceLookup,        \* ServiceLayer.serviceLookup (spec -> lookup result)
    declaredDependencies, \* ServiceLayer.declaredDependencies
    state,                \* ServiceLayer.state
    svcState,             \* ServiceRepr.state, per service id
    refCount,             \* ServiceRepr reference count, per service id
    instance,             \* ServiceRepr instance, per service id (0: none)
    stack,                \* call stack of the operation in progress
    lastCall,             \* the public call in progress or last completed
    result,               \* its outcome
    ctorCalls,            \* per service: number of constructor invocations
    dtorCalls,            \* per service: number of destructor invocations
    starts,               \* number of start() calls that passed the guard
    startCalled,          \* start() has been called on this layer
    events                \* trace of constructor / destructor invocations

vars == <<packages, phase, allServices, serviceLookup, declaredDependencies,
          state, svcState, refCount, instance, stack, lastCall, result,
          ctorCalls, dtorCalls, starts, startCalled, events>>

config == <<packages, allServices, serviceLookup, declaredDependencies>>
history == <<ctorCalls, dtorCalls, events>>
calls == <<starts, startCalled>>

\* ------------------------------------------------------------------ inputs
ServiceStates == {"not-constructed", "constructing", "constructed", "destroyed"}

Dependency(name, spec) ==
    [referenceName |-> name, interfaceName |-> spec.interfaceName,
     qualifier |-> spec.qualifier]

SpecOf(d) == InterfaceSpec(d.interfaceName, d.qualifier)

Service(id, provided, deps) ==
    [id |-> id, interfaces |-> provided, dependencies |-> deps]

Package(name, services, uiReferences) ==
    [name |-> name, services |-> services, uiReferences |-> uiReferences]

\* The targets of the edges of es that leave service s, in declaration order;
\* the reference name of a dependency is its position in the declaration.
RECURSIVE TargetsOf(_, _)
TargetsOf(es, s) ==
    IF es = <<>> THEN <<>>
    ELSE IF es[1][1] = s THEN <<es[1][2]>> \o TargetsOf(Tail(es), s)
         ELSE TargetsOf(Tail(es), s)

GraphService(es, s) ==
    LET ts == TargetsOf(es, s)
    IN  Service(s, {InterfaceSpec(InterfaceOf(s), Absent)},
                [k \in 1..Len(ts) |->
                    Dependency(k, InterfaceSpec(InterfaceOf(ts[k]), Absent))])

\* Edge lists sorted by their source, so that each graph is drawn once.
EdgeLists ==
    {es \in SeqsUpTo(MaxEdges, GraphServices \X GraphServices) :
        \A k \in 1..(Len(es) - 1) : es[k][1] <= es[k + 1][1]}

\* Dependency-graph family: every service provides its own interface, the
\* dependencies form an arbitrary directed multigraph (cycles included); the
\* services are split over two packages.
GraphPackages(es) ==
    LET n == Cardinality(GraphServices)
    IN  << Package("pkgA", [k \in 1..(n - 1) |-> GraphService(es, k)], <<>>),
           Package("pkgB", <<GraphService(es, n)>>, <<>>) >>

\* Lookup family: providers without dependencies register interfaces with and
\* without qualifiers, the packages declare UI references.
LookupPackages(provided, refsA, refsB) ==
    << Package("pkgA",
               [k \in 1..MaxProviders |-> Service(k, {provided[k]}, <<>>)], refsA),
       Package("pkgB", <<>>, refsB) >>

InputPackages ==
    {GraphPackages(es) : es \in EdgeLists}
    \cup
    {LookupPackages(provided, refsA, refsB) :
        provided \in [1..MaxProviders -> LookupSpecs],
        refsA \in SeqsUpTo(MaxProviders, LookupSpecs),
        refsB \in SeqsUpTo(1, LookupSpecs \ {InterfaceSpec("X", "v2")})}

RECURSIVE Flat(_)
Flat(seqs) == IF seqs = <<>> THEN <<>> ELSE Head(seqs) \o Flat(Tail(seqs))

\* packages.map((pkg) => pkg.services).flat()
FlatServices(pkgs) == Flat([k \in 1..Len(pkgs) |-> pkgs[k].services])

\* packages.map((pkg) => pkg.uiReferences.map(...)).flat()
UiDependencies(pkgs) ==
    Flat([k \in 1..Len(pkgs) |->
            [j \in 1..Len(pkgs[k].uiReferences) |->
                [packageName |-> pkgs[k].name,
                 interfaceName |-> pkgs[k].uiReferences[j].interfaceName,
                 qualifier |-> pkgs[k].uiReferences[j].qualifier]]])

ServiceIds(pkgs) == {FlatServices(pkgs)[k].id : k \in 1..Len(FlatServices(pkgs))}

InterfaceNames == {"X", "Y"} \cup {InterfaceOf(n) : n \in GraphServices}
KnownSpecs == {InterfaceSpec(i, q) : i \in InterfaceNames, q \in Qualifiers}

\* ------------------------------------------------- lookup index (spec 4.1)
NotFound == [type |-> "not-found", service |-> 0]
Ambiguous == [type |-> "ambiguous", service |-> 0]
Found(id) == [type |-> "found", service |-> id]

\* A specification without qualifier matches only providers registered
\* without qualifier, one with a qualifier only providers registered with
\* exactly that qualifier.
ProvidersOf(services, spec) ==
    {services[k].id : k \in {j \in 1..Len(services) : spec \in services[j].interfaces}}

LookupIn(services, spec) ==
    LET ps == ProvidersOf(services, spec)
    IN  IF ps = {} THEN NotFound
        ELSE IF Cardinality(ps) = 1 THEN Found(CHOOSE id \in ps : TRUE)
        ELSE Ambiguous

BuildLookup(services) == [spec \in KnownSpecs |-> LookupIn(services, spec)]

\* Every declared dependency of every service and every UI reference of
\* every package must resolve to exactly one provider.
DependenciesResolve(services, uiDependencies) ==
    /\ \A k \in 1..Len(services) : \A j \in 1..Len(services[k].dependencies) :
          LookupIn(services, SpecOf(services[k].dependencies[j])).type = "found"
    /\ \A k \in 1..Len(uiDependencies) :
          LookupIn(services, SpecOf(uiDependencies[k])).type = "found"

\* --------------------------------------------- declared UI dependencies
EmptyMap == <<>>

NewDeclarations == [unqualified |-> FALSE, qualifiers |-> {}]

\* One iteration of the inner loop of buildDependencyIndex.
AddUiReference(packageEntry, uiReference) ==
    LET interfaceEntry ==
            IF uiReference.interfaceName \in DOMAIN packageEntry
            THEN packageEntry[uiReference.interfaceName]
            ELSE NewDeclarations
        updated ==
            IF uiReference.qualifier = Absent
            THEN [interfaceEntry EXCEPT !.unqualified = TRUE]
            ELSE [interfaceEntry EXCEPT !.qualifiers = @ \cup {uiReference.qualifier}]
    IN  (uiReference.interfaceName :> updated) @@ packageEntry

RECURSIVE PackageEntry(_, _)
PackageEntry(uiReferences, packageEntry) ==
    IF uiReferences = <<>> THEN packageEntry
    ELSE PackageEntry(Tail(uiReferences), AddUiReference(packageEntry, Head(uiReferences)))

RECURSIVE DependencyIndex(_, _)
DependencyIndex(pkgs, index) ==
    IF pkgs = <<>> THEN index
    ELSE DependencyIndex(Tail(pkgs),
            (Head(pkgs).name :> PackageEntry(Head(pkgs).uiReferences, EmptyMap)) @@ index)

\* Mutant: one package entry is shared by all packages.
buildDependencyIndex_SharedEntry(pkgs) ==
    LET entry == PackageEntry(Flat([k \in 1..Len(pkgs) |-> pkgs[k].uiReferences]), EmptyMap)
    IN  [name \in {pkgs[k].name : k \in 1..Len(pkgs)} |-> entry]

buildDependencyIndex(pkgs) == DependencyIndex(pkgs, EmptyMap)

\* Mutant: any declaration of the interface authorizes every qualifier.
isDeclaredDependency_AnyQualifier(declared, packageName, spec) ==
    /\ packageName \in DOMAIN declared
    /\ spec.interfaceName \in DOMAIN declared[packageName]

isDeclaredDependency(declared, packageName, spec) ==
    IF packageName \notin DOMAIN declared THEN FALSE
    ELSE LET packageEntry == declared[packageName]
         IN  IF spec.interfaceName \notin DOMAIN packageEntry THEN FALSE
             ELSE LET interfaceEntry == packageEntry[spec.interfaceName]
                  IN  IF spec.qualifier = Absent THEN interfaceEntry.unqualified
                      ELSE spec.qualifier \in interfaceEntry.qualifiers

\* ------------------------------------------- ServiceRepr (spec section 3)
NoInstance == 0

\* addRef / removeRef: increment / decrement the reference count and
\* return the new count.
addRef(count) == count + 1
removeRef(count) == count - 1

ServiceById(id) ==
    allServices[CHOOSE k \in 1..Len(allServices) : allServices[k].id = id]

DependenciesOf(id) == ServiceById(id).dependencies

\* ------------------------------------------------------------ ServiceLayer
NoSpec == InterfaceSpec("", Absent)
Call(op, packageName, spec) ==
    [op |-> op, packageName |-> packageName, spec |-> spec, pre |-> state,
     again |-> op = "start" /\ startCalled]

NoValue == [type |-> "none", service |-> 0]
Undeclared == [type |-> "undeclared", service |-> 0]
Running == [outcome |-> "running", error |-> "", value |-> NoValue]
Returned(value) == [outcome |-> "returned", error |-> "", value |-> value]
Threw(error) == [outcome |-> "threw", error |-> error, value |-> NoValue]

Frame(fn, service) == [fn |-> fn, service |-> service, i |-> 1, instances |-> EmptyMap]

Idle == phase = "built" /\ stack = <<>>
Top == stack[Len(stack)]
Caller == SubSeq(stack, 1, Len(stack) - 1)

Init ==
    /\ packages \in InputPackages
    /\ phase = "new"
    /\ allServices = <<>>
    /\ serviceLookup = EmptyMap
    /\ declaredDependencies = EmptyMap
    /\ state = "not-started"
    /\ svcState = [id \in ServiceIds(packages) |-> "not-constructed"]
    /\ refCount = [id \in ServiceIds(packages) |-> 0]
    /\ instance = [id \in ServiceIds(packages) |-> NoInstance]
    /\ stack = <<>>
    /\ lastCall = [op |-> "none", packageName |-> "", spec |-> NoSpec,
                   pre |-> "not-started", again |-> FALSE]
    /\ result = Returned(NoValue)
    /\ ctorCalls = [id \in ServiceIds(packages) |-> 0]
    /\ dtorCalls = [id \in ServiceIds(packages) |-> 0]
    /\ starts = 0
    /\ startCalled = FALSE
    /\ events = <<>>

\* new ServiceLayer(packages): verifyDependencies throws when a dependency
\* or a UI reference does not resolve, and then there is no layer.
Construct ==
    /\ phase = "new"
    /\ lastCall' = Call("new", "", NoSpec)
    /\ allServices' = FlatServices(packages)
    /\ IF DependenciesResolve(FlatServices(packages), UiDependencies(packages))
       THEN /\ serviceLookup' = BuildLookup(FlatServices(packages))
            /\ declaredDependencies' = buildDependencyIndex(packages)
            /\ phase' = "built"
            /\ result' = Returned(NoValue)
       ELSE /\ phase' = "build-error"
            /\ result' = Threw("build")
            /\ UNCHANGED <<serviceLookup, declaredDependencies>>
    /\ UNCHANGED <<packages, state, svcState, refCount, instance, stack, calls, history>>

\* An error thrown inside start() or destroy() is caught nowhere: it unwinds
\* the whole stack and reaches the caller of the public method.
Throw(error) ==
    /\ stack' = <<>>
    /\ result' = Threw(error)

\* The value v returns to the frame below the top frame: a createService
\* frame stores it under the reference name of the dependency at hand and
\* moves on, start() and destroy() ignore it.
ReturnTo(frames, v) ==
    IF frames = <<>> THEN frames
    ELSE LET f == frames[Len(frames)]
             g == IF f.fn = "createService"
                  THEN [f EXCEPT
                          !.instances =
                              (DependenciesOf(f.service)[f.i].referenceName :> v) @@ @,
                          !.i = @ + 1]
                  ELSE [f EXCEPT !.i = @ + 1]
         IN  [frames EXCEPT ![Len(frames)] = g]

\* Mutant: the guard only rejects a destroyed layer.
startRejects_OnlyDestroyed(layerState) == layerState = "destroyed"

\* Mutant: the guard only rejects a started layer.
startRejects_OnlyStarted(layerState) == layerState = "started"

\* start(): the guard on the layer state.
startRejects(layerState) == layerState # "not-started"

\* Mutant: the layer counts as started as soon as the guard has passed.
startKeeps_StartedEarly(layerState) == "started"

\* start(): the layer state while the services are created; 'started' is
\* only assigned after the loop.
startKeeps(layerState) == layerState

Start ==
    /\ Idle
    /\ lastCall' = Call("start", "", NoSpec)
    /\ startCalled' = TRUE
    /\ IF startRejects(state)
       THEN /\ result' = Threw("already-started")
            /\ UNCHANGED <<stack, starts, state>>
       ELSE /\ starts < MaxStarts
            /\ starts' = starts + 1
            /\ state' = startKeeps(state)
            /\ stack' = <<Frame("start", 0)>>
            /\ result' = Running
    /\ UNCHANGED <<config, phase, svcState, refCount, instance, history>>

\* Mutant: the branch for a constructed service is missing.
createServiceEntry_NoShare(serviceState) ==
    IF serviceState = "constructing" THEN "cycle"
    ELSE IF serviceState # "not-constructed" THEN "invalid"
    ELSE "construct"

\* Mutant: a service under construction is handed out like a constructed one.
createServiceEntry_NoCycle(serviceState) ==
    IF serviceState \in {"constructed", "constructing"} THEN "share"
    ELSE IF serviceState # "not-constructed" THEN "invalid"
    ELSE "construct"

\* Mutant: a constructed service is constructed again instead of shared.
createServiceEntry_Reconstruct(serviceState) ==
    IF serviceState = "constructing" THEN "cycle"
    ELSE IF serviceState = "destroyed" THEN "invalid"
    ELSE "construct"

\* createService: which branch the state of the service selects.
createServiceEntry(serviceState) ==
    IF serviceState = "constructed" THEN "share"
    ELSE IF serviceState = "constructing" THEN "cycle"
    ELSE IF serviceState # "not-constructed" THEN "invalid"
    ELSE "construct"

\* Mutant: the shared instance is returned without addRef.
createServiceShared_NoAddRef(counts, id) == counts

\* createService on a constructed service: one more reference.
createServiceShared(counts, id) == [counts EXCEPT ![id] = addRef(@)]

\* A call createService(service with id t) made by the top frame.
CreateService(t) ==
    LET branch == createServiceEntry(svcState[t])
    IN  /\ CASE branch = "share" ->
                  /\ refCount' = createServiceShared(refCount, t)
                  /\ stack' = ReturnTo(stack, <<t, instance[t]>>)
                  /\ UNCHANGED <<svcState, result>>
             [] branch = "cycle" ->
                  /\ Throw("cycle")
                  /\ UNCHANGED <<svcState, refCount>>
             [] branch = "invalid" ->
                  /\ Throw("invalid-service-state")
                  /\ UNCHANGED <<svcState, refCount>>
             [] branch = "construct" ->
                  /\ svcState' = [svcState EXCEPT ![t] = "constructing"]
                  /\ stack' = Append(stack, Frame("createService", t))
                  /\ UNCHANGED <<refCount, result>>
        /\ UNCHANGED <<config, phase, state, instance, lastCall, calls, history>>

\* start(): one iteration of allServices.forEach.
StartLoop ==
    /\ stack # <<>>
    /\ Top.fn = "start"
    /\ Top.i <= Len(allServices)
    /\ CreateService(allServices[Top.i].id)

\* start(): the loop is over.
StartReturn ==
    /\ stack # <<>>
    /\ Top.fn = "start"
    /\ Top.i > Len(allServices)
    /\ state' = "started"
    /\ stack' = <<>>
    /\ result' = Returned(NoValue)
    /\ UNCHANGED <<config, phase, svcState, refCount, instance, lastCall, calls, history>>

\* createService: one iteration of service.dependencies.forEach.
CreateLoop ==
    /\ stack # <<>>
    /\ Top.fn = "createService"
    /\ Top.i <= Len(DependenciesOf(Top.service))
    /\ LET found == serviceLookup[SpecOf(DependenciesOf(Top.service)[Top.i])]
       IN  IF found.type # "found"
           THEN /\ Throw("lookup-failed")
                /\ UNCHANGED <<config, phase, state, svcState, refCount, instance,
                               lastCall, calls, history>>
           ELSE CreateService(found.service)

\* createService: all dependencies are there, service.create(...) runs the
\* constructor of the service; the instance returns to the caller.
CreateReturn ==
    /\ stack # <<>>
    /\ Top.fn = "createService"
    /\ Top.i > Len(DependenciesOf(Top.service))
    /\ LET s == Top.service
           made == ctorCalls[s] + 1
       IN  /\ svcState' = [svcState EXCEPT ![s] = "constructed"]
           /\ refCount' = [refCount EXCEPT ![s] = 1]
           /\ instance' = [instance EXCEPT ![s] = made]
           /\ ctorCalls' = [ctorCalls EXCEPT ![s] = made]
           /\ events' = Append(events,
                  [kind |-> "construct", service |-> s, references |-> Top.instances])
           /\ stack' = ReturnTo(Caller, <<s, made>>)
    /\ UNCHANGED <<config, phase, state, lastCall, result, calls, dtorCalls>>

\* destroy(): no guard on the layer state.
Destroy ==
    /\ Idle
    /\ lastCall' = Call("destroy", "", NoSpec)
    /\ stack' = <<Frame("destroy", 0)>>
    /\ result' = Running
    /\ UNCHANGED <<config, phase, state, svcState, refCount, instance, calls, history>>

\* Mutant: the guard for a destroyed service is missing.
destroyServiceSkips_Never(serviceState) == FALSE

\* destroyService: a destroyed service is left alone.
destroyServiceSkips(serviceState) == serviceState = "destroyed"

\* Mutant: the comparison is off by one.
destroyServiceReleases_OffByOne(count) == count < 0

\* destroyService: the service is destroyed when the count left by
\* removeRef is not positive.
destroyServiceReleases(count) == count <= 0

\* A call destroyService(service with id t) made by the top frame.  The
\* destructor runs on the instance, if there is one.
DestroyService(t) ==
    /\ IF destroyServiceSkips(svcState[t])
       THEN /\ stack' = ReturnTo(stack, NoInstance)
            /\ UNCHANGED <<svcState, refCount, instance, history>>
       ELSE LET left == removeRef(refCount[t])
                called == [kind |-> "destroyService", service |-> t,
                           from |-> Top.service, dep |-> Top.i]
            IN  /\ refCount' = [refCount EXCEPT ![t] = left]
                /\ stack' = Append(stack, Frame("destroyService", t))
                /\ UNCHANGED ctorCalls
                /\ IF destroyServiceReleases(left)
                   THEN /\ svcState' = [svcState EXCEPT ![t] = "destroyed"]
                        /\ instance' = [instance EXCEPT ![t] = NoInstance]
                        /\ IF instance[t] # NoInstance
                           THEN /\ dtorCalls' = [dtorCalls EXCEPT ![t] = @ + 1]
                                /\ events' = events \o
                                      <<called, [kind |-> "destroy", service |-> t]>>
                           ELSE /\ events' = Append(events, called)
                                /\ UNCHANGED dtorCalls
                   ELSE /\ events' = Append(events, called)
                        /\ UNCHANGED <<svcState, instance, dtorCalls>>
    /\ UNCHANGED <<config, phase, state, lastCall, result, calls>>

\* destroy(): one iteration of allServices.forEach.
DestroyLoop ==
    /\ stack # <<>>
    /\ Top.fn = "destroy"
    /\ Top.i <= Len(allServices)
    /\ DestroyService(allServices[Top.i].id)

\* Mutant: only a started layer becomes destroyed.
destroyLeaves_OnlyStarted(layerState) ==
    IF layerState = "started" THEN "destroyed" ELSE layerState

\* destroy(): the layer state after the loop, whatever it was before.
destroyLeaves(layerState) == "destroyed"

\* destroy(): the loop is over.
DestroyReturn ==
    /\ stack # <<>>
    /\ Top.fn = "destroy"
    /\ Top.i > Len(allServices)
    /\ state' = destroyLeaves(state)
    /\ stack' = <<>>
    /\ result' = Returned(NoValue)
    /\ UNCHANGED <<config, phase, svcState, refCount, instance, lastCall, calls, history>>

\* destroyService: one iteration of service.dependencies.forEach; a
\* dependency that does not resolve is passed over.
DestroyServiceLoop ==
    /\ stack # <<>>
    /\ Top.fn = "destroyService"
    /\ Top.i <= Len(DependenciesOf(Top.service))
    /\ LET lookupResult == serviceLookup[SpecOf(DependenciesOf(Top.service)[Top.i])]
       IN  IF lookupResult.type = "found"
           THEN DestroyService(lookupResult.service)
           ELSE /\ stack' = ReturnTo(stack, NoInstance)
                /\ UNCHANGED <<config, phase, state, svcState, refCount, instance,
                               lastCall, result, calls, history>>

\* destroyService returns.
DestroyServiceReturn ==
    /\ stack # <<>>
    /\ Top.fn = "destroyService"
    /\ Top.i > Len(DependenciesOf(Top.service))
    /\ stack' = ReturnTo(Caller, NoInstance)
    /\ UNCHANGED <<config, phase, state, svcState, refCount, instance,
                   lastCall, result, calls, history>>

\* Mutant: the guard only rejects a layer that was never started.
getServiceRejects_OnlyNotStarted(layerState) == layerState = "not-started"

\* getService: the guard on the layer state.
getServiceRejects(layerState) == layerState # "started"

\* Mutant: the declaration check is inverted.
getService_Inverted(declared, lookup, packageName, spec) ==
    IF isDeclaredDependency(declared, packageName, spec)
    THEN Undeclared
    ELSE lookup[spec]

\* getService on a started layer.
getService(declared, lookup, packageName, spec) ==
    IF ~isDeclaredDependency(declared, packageName, spec)
    THEN Undeclared
    ELSE lookup[spec]

GetService ==
    /\ Idle
    /\ \E packageName \in QueryPackages, spec \in QuerySpecs :
          /\ lastCall' = Call("getService", packageName, spec)
          /\ result' = IF getServiceRejects(state)
                       THEN Threw("not-started")
                       ELSE Returned(getService(declaredDependencies, serviceLookup,
                                                packageName, spec))
    /\ UNCHANGED <<config, phase, state, svcState, refCount, instance, stack,
                   calls, history>>

Next ==
    \/ Construct
    \/ Start
    \/ StartLoop
    \/ StartReturn
    \/ CreateLoop
    \/ CreateReturn
    \/ Destroy
    \/ DestroyLoop
    \/ DestroyReturn
    \/ DestroyServiceLoop
    \/ DestroyServiceReturn
    \/ GetService

Spec == Init /\ [][Next]_vars

\* The steps of a running destroy().
DestroyStep ==
    \/ DestroyLoop
    \/ DestroyReturn
    \/ DestroyServiceLoop
    \/ DestroyServiceReturn

\* destroy() is synchronous: once called, its loops run on without waiting
\* for anything.
FairSpec == Spec /\ WF_vars(DestroyStep)

\* ===================================================================
\* Properties
\* ===================================================================
Ids == DOMAIN svcState

\* The services that the dependency declarations of service d resolve to.
Successors(d) ==
    {serviceLookup[SpecOf(DependenciesOf(d)[k])].service :
        k \in 1..Len(DependenciesOf(d))}

DependsOn(d, x) == x \in Successors(d)

\* The number of dependency declarations of service d that resolve to x.
EdgeCount(d, x) ==
    Cardinality({k \in 1..Len(DependenciesOf(d)) :
        serviceLookup[SpecOf(DependenciesOf(d)[k])].service = x})

\* The services reached from the set S along at most n dependencies.
RECURSIVE ReachedFrom(_, _)
ReachedFrom(S, n) ==
    IF n = 0 THEN S
    ELSE LET more == S \cup UNION {Successors(d) : d \in S}
         IN  IF more = S THEN S ELSE ReachedFrom(more, n - 1)

OnCycle(s) == s \in ReachedFrom(Successors(s), Cardinality(Ids))
Acyclic == \A s \in Ids : ~OnCycle(s)

\* The public call op, made in layer state pre, has completed and nothing
\* was called since.
Completed(op, pre) ==
    /\ phase = "built"
    /\ stack = <<>>
    /\ lastCall.op = op
    /\ lastCall.pre = pre

\* C1: when the dependency graph is acyclic and every interface resolves,
\* start() on a not-started layer returns without error, the layer is
\* started and every service is constructed and holds at least one reference.
C1_StartSucceeds ==
    (Completed("start", "not-started") /\ Acyclic) =>
        /\ result = Returned(NoValue)
        /\ state = "started"
        /\ \A s \in Ids : svcState[s] = "constructed" /\ refCount[s] >= 1

\* start() has returned on a layer with a chain of dependencies, one of
\* them shared.
C1_Witness ==
    /\ Completed("start", "not-started")
    /\ Acyclic
    /\ state = "started"
    /\ \E a, b, c \in Ids :
          /\ a # b /\ b # c /\ a # c
          /\ DependsOn(a, b) /\ DependsOn(b, c)
          /\ refCount[c] >= 2

\* C2: when the dependency graph contains a cycle, start() on a not-started
\* layer fails with the cycle error and no service on a cycle is ever
\* constructed, whatever the order of the services and of the dependencies.
C2_CycleDetected ==
    phase = "built" =>
        /\ \A s \in Ids : svcState[s] = "constructed" => ~OnCycle(s)
        /\ (Completed("start", "not-started") /\ ~Acyclic) => result = Threw("cycle")

\* start() has failed on a cycle of two services that is entered from a
\* third one, after a service outside the cycle has been constructed.
C2_Witness ==
    /\ Completed("start", "not-started")
    /\ result = Threw("cycle")
    /\ \E a, b, c \in Ids :
          /\ a # b /\ DependsOn(a, b) /\ DependsOn(b, a)
          /\ svcState[a] = "constructing" /\ svcState[b] = "constructing"
          /\ c \notin {a, b} /\ DependsOn(c, a)

\* Services s1 and s2 each declare p once, and nothing else depends on p.
SharedByTwo(p, s1, s2) ==
    /\ s1 # s2 /\ p # s1 /\ p # s2
    /\ EdgeCount(s1, p) = 1
    /\ EdgeCount(s2, p) = 1
    /\ \A d \in Ids \ {s1, s2} : EdgeCount(d, p) = 0

\* C3 as claimed: a provider shared by two services has reference count 2
\* after a successful start().
C3_Original ==
    (Completed("start", "not-started") /\ result = Returned(NoValue)) =>
        \A p, s1, s2 \in Ids : SharedByTwo(p, s1, s2) => refCount[p] = 2

\* C3: after a successful start() a provider that two services declare as a
\* dependency (and nothing else depends on) has reference count 3, one
\* reference for each of the two dependents and one for the call of
\* createService that start() makes for the provider itself, for every order
\* of the three services.
C3_SharedRefCount ==
    (Completed("start", "not-started") /\ result = Returned(NoValue)) =>
        \A p, s1, s2 \in Ids : SharedByTwo(p, s1, s2) => refCount[p] = 3

\* start() has returned where the provider comes first in the service list.
C3_Witness ==
    /\ Completed("start", "not-started")
    /\ result = Returned(NoValue)
    /\ SharedByTwo(1, 2, 3)
    /\ refCount[1] = 3

\* C4: destroy() after a successful start() leaves every service destroyed,
\* with its destructor invoked exactly once.
C4_DestroyedOnce ==
    /\ (lastCall.op = "destroy" /\ lastCall.pre = "started") =>
          \A s \in Ids : dtorCalls[s] <= 1
    /\ Completed("destroy", "started") =>
          /\ result = Returned(NoValue)
          /\ \A s \in Ids : svcState[s] = "destroyed" /\ dtorCalls[s] = 1

\* destroy() has returned after a start() that shared a service between two
\* dependents.
C4_Witness ==
    /\ Completed("destroy", "started")
    /\ \E p, s1, s2 \in Ids : SharedByTwo(p, s1, s2)
    /\ \A s \in Ids : dtorCalls[s] = 1

\* C5 (stated as claimed): during destroy() after a successful start() no
\* service is destroyed while a service that declares it as a dependency is
\* not yet destroyed.
C5_DependentsFirst ==
    (phase = "built" /\ lastCall.op = "destroy" /\ lastCall.pre = "started") =>
        \A d, x \in Ids :
            (DependsOn(d, x) /\ svcState[x] = "destroyed") => svcState[d] = "destroyed"

\* A step of a start() call that is not the first start() call on the layer.
SecondStartStep ==
    \/ Start /\ startCalled
    \/ Next /\ stack # <<>> /\ lastCall.op = "start" /\ lastCall.again

\* C6 as claimed: a second call of start() is rejected with the invalid-state
\* error, invokes no constructor and changes no service state or reference
\* count, whether the first call returned or raised.
C6_Original ==
    [][SecondStartStep =>
          /\ result' = Threw("already-started")
          /\ UNCHANGED <<state, svcState, refCount, instance, ctorCalls>>]_vars

\* C6: a call of start() on a layer that an earlier start() has started is
\* rejected with the invalid-state error, invokes no constructor and changes
\* no service state or reference count.  (After a start() that raised the
\* layer is still not-started, and a second start() passes the guard.)
C6_SecondStartRejected ==
    [][(Start /\ startCalled /\ state # "not-started") =>
          /\ result' = Threw("already-started")
          /\ stack' = <<>>
          /\ UNCHANGED <<state, svcState, refCount, instance, ctorCalls>>]_vars

\* The second start() on a started layer has been rejected.
C6_Witness ==
    /\ Completed("start", "started")
    /\ lastCall.again
    /\ result = Threw("already-started")
    /\ \A s \in Ids : svcState[s] = "constructed"

\* The UI references that package packageName declares.
ReferencesOf(packageName) ==
    UNION {{SpecOf(packages[k].uiReferences[j]) : j \in 1..Len(packages[k].uiReferences)} :
              k \in {n \in 1..Len(packages) : packages[n].name = packageName}}

\* C7: getService throws the invalid-state error and returns no lookup
\* result whenever the layer is not started: before start(), after a start()
\* that raised and after destroy().
C7_GetServiceNeedsStarted ==
    (phase = "built" /\ stack = <<>> /\ lastCall.op = "getService"
        /\ lastCall.pre # "started") =>
        result = Threw("not-started")

\* getService has been refused on a destroyed layer, for a dependency that
\* the package declared and that has a provider.
C7_Witness ==
    /\ Completed("getService", "destroyed")
    /\ result = Threw("not-started")
    /\ lastCall.spec \in ReferencesOf(lastCall.packageName)
    /\ serviceLookup[lastCall.spec].type = "found"

\* C8: on a started layer getService(p, spec) returns 'undeclared' whenever
\* package p itself declared no UI reference equal to spec, whether or not a
\* provider exists and whatever the other packages declared.
C8_UndeclaredIsPerPackage ==
    (Completed("getService", "started")
        /\ lastCall.spec \notin ReferencesOf(lastCall.packageName)) =>
        result = Returned(Undeclared)

\* pkgA has looked up a provided interface that only pkgB declared.
C8_Witness ==
    /\ Completed("getService", "started")
    /\ lastCall.packageName = "pkgA"
    /\ lastCall.spec \notin ReferencesOf("pkgA")
    /\ lastCall.spec \in ReferencesOf("pkgB")
    /\ serviceLookup[lastCall.spec].type = "found"
    /\ result = Returned(Undeclared)

\* All references of package packageName to interface i carry qualifier q
\* (Absent: they are unqualified), and there is at least one.
OnlyReference(packageName, i, q) ==
    /\ InterfaceSpec(i, q) \in ReferencesOf(packageName)
    /\ \A r \in ReferencesOf(packageName) : r.interfaceName = i => r.qualifier = q

\* C9: a package whose only reference to an interface carries qualifier q1
\* gets 'undeclared' for every other qualifier and for no qualifier, and a
\* package whose only reference is unqualified gets 'undeclared' for every
\* qualifier.
C9_QualifierExact ==
    Completed("getService", "started") =>
        \A q \in Qualifiers :
            (OnlyReference(lastCall.packageName, lastCall.spec.interfaceName, q)
                /\ lastCall.spec.qualifier # q) =>
                result = Returned(Undeclared)

\* pkgA, whose only reference to X has qualifier v1, has looked up (X, v2),
\* for which a provider exists.
C9_Witness ==
    /\ Completed("getService", "started")
    /\ lastCall.packageName = "pkgA"
    /\ OnlyReference("pkgA", "X", "v1")
    /\ lastCall.spec = InterfaceSpec("X", "v2")
    /\ serviceLookup[lastCall.spec].type = "found"
    /\ result = Returned(Undeclared)

\* The providers that register interface i without qualifier.
UnqualifiedProviders(i) == ProvidersOf(FlatServices(packages), InterfaceSpec(i, Absent))

\* Some package declares an unqualified reference to interface i.
DeclaredUnqualified(i) ==
    \E k \in 1..Len(packages) : InterfaceSpec(i, Absent) \in ReferencesOf(packages[k].name)

C11_DestroyAlwaysCompletes ==
    (phase = "built" /\ stack = <<>> /\ lastCall.op = "destroy") =>
        /\ result = Returned(NoValue)
        /\ state = "destroyed"

\* destroy() has returned on a layer whose start() had raised on a cycle,
\* with a service left under construction.
C11_Witness ==
    /\ Completed("destroy", "not-started")
    /\ starts >= 1
    /\ ~Acyclic
    /\ state = "destroyed"
    /\ result = Returned(NoValue)

\* C12: the layer state never returns to not-started once it has left it and
\* never leaves destroyed once it has reached it; a start() on a destroyed
\* layer is refused at once.
C12_LayerStateMonotonic ==
    [][/\ state # "not-started" => state' # "not-started"
       /\ state = "destroyed" => state' = "destroyed"
       /\ (Start /\ state = "destroyed") =>
             (stack' = <<>> /\ result' = Threw("already-started"))]_vars

\* start() has been refused on a layer that was started and then destroyed.
C12_Witness ==
    /\ Completed("start", "destroyed")
    /\ lastCall.again
    /\ state = "destroyed"
    /\ result = Threw("already-started")
    /\ \E s \in Ids : dtorCalls[s] = 1

\* The construct events of service s in the log.
ConstructEventsOf(s) ==
    {k \in 1..Len(events) : events[k].kind = "construct" /\ events[k].service = s}

\* The service that dependency k of service s resolves to.
TargetOf(s, k) == serviceLookup[SpecOf(DependenciesOf(s)[k])].service

\* C13: no resurrection. The constructor of a service is invoked at most
\* once, a service enters constructed at most once (with that invocation), a
\* destroyed service stays destroyed, and every reference handed to a
\* dependent holds the instance made by that one construction.
C13_NoResurrection ==
    [][\A s \in Ids :
          /\ ctorCalls'[s] <= 1
          /\ svcState[s] = "destroyed" => svcState'[s] = "destroyed"
          /\ (svcState[s] # "constructed" /\ svcState'[s] = "constructed") =>
                (ctorCalls[s] = 0 /\ ctorCalls'[s] = 1)
          /\ ctorCalls'[s] > ctorCalls[s] =>
                LET e == events'[Len(events')]
                IN  \A k \in DOMAIN e.references :
                        e.references[k] = <<TargetOf(s, k), 1>>]_vars

\* Two services share a provider; start() succeeded, the provider was
\* constructed once and both dependents hold that instance.
C13_Witness ==
    /\ Completed("start", "not-started")
    /\ result = Returned(NoValue)
    /\ \E p, s1, s2 \in Ids :
          /\ SharedByTwo(p, s1, s2)
          /\ ctorCalls[p] = 1
          /\ \A d \in {s1, s2} :
                \E k \in ConstructEventsOf(d) :
                    \E n \in DOMAIN events[k].references :
                        events[k].references[n] = <<p, 1>>

\* C14: when the constructor of a service is invoked, every service that
\* one of its declared dependencies resolves to is constructed, and the
\* references passed hold one instance per declared reference name, the
\* instance of the service that the reference resolves to.
C14_DependenciesFirst ==
    [][\A s \in Ids :
          ctorCalls'[s] > ctorCalls[s] =>
             LET deps == DependenciesOf(s)
                 e == events'[Len(events')]
             IN  /\ \A x \in Successors(s) : svcState[x] = "constructed"
                 /\ e.kind = "construct" /\ e.service = s
                 /\ DOMAIN e.references =
                       {deps[k].referenceName : k \in 1..Len(deps)}
                 /\ \A k \in 1..Len(deps) :
                       /\ instance[TargetOf(s, k)] # NoInstance
                       /\ e.references[deps[k].referenceName] =
                             <<TargetOf(s, k), instance[TargetOf(s, k)]>>]_vars

\* start() is still running and the constructor just invoked belongs to a
\* service with two dependencies on two different services.
C14_Witness ==
    /\ stack # <<>>
    /\ lastCall.op = "start"
    /\ events # <<>>
    /\ LET e == events[Len(events)]
       IN  /\ e.kind = "construct"
           /\ Len(DependenciesOf(e.service)) = 2
           /\ Cardinality(Successors(e.service)) = 2
           /\ Cardinality(DOMAIN e.references) = 2

\* C15 as claimed: in every reachable state the reference count of every
\* service is non-negative.
C15_RefCountNonNegative == \A s \in Ids : refCount[s] >= 0

\* C16: no rollback. The step at which start() raises partway changes no
\* service: every service constructed before stays constructed with its
\* reference count, no destructor has run, and the layer is still
\* not-started when the error reaches the caller.
C16_NoRollback ==
    [][(lastCall.op = "start" /\ stack # <<>> /\ result'.outcome = "threw") =>
          /\ UNCHANGED <<svcState, refCount, instance, ctorCalls, dtorCalls>>
          /\ stack' = <<>>
          /\ state' = "not-started"
          /\ \A s \in Ids :
                /\ dtorCalls'[s] = 0
                /\ ctorCalls'[s] = 1 =>
                      (svcState'[s] = "constructed" /\ refCount'[s] >= 1)]_vars

\* start() raised on a cycle after it had constructed a service; that
\* service is still constructed and the layer is not-started.
C16_Witness ==
    /\ Completed("start", "not-started")
    /\ result = Threw("cycle")
    /\ state = "not-started"
    /\ \E s \in Ids :
          /\ ctorCalls[s] = 1
          /\ svcState[s] = "constructed"
          /\ refCount[s] >= 1
    /\ \E s \in Ids : svcState[s] = "constructing"
    /\ \A s \in Ids : dtorCalls[s] = 0

\* The calls destroyService(x) that reached the reference count of x (the
\* service was not yet destroyed) from dependency k of service d.
PropagationsAlong(d, k) ==
    {n \in 1..Len(events) :
        /\ events[n].kind = "destroyService"
        /\ events[n].from = d
        /\ events[n].dep = k}

\* C17 as claimed: when destroy() has run on a started layer, destruction
\* went along every dependency (D -> X) exactly once, so X got exactly one
\* decrement per dependent that referenced it during construction.
C17_EdgeOnce ==
    Completed("destroy", "started") =>
        \A d \in Ids :
            \A k \in 1..Len(DependenciesOf(d)) :
                Cardinality(PropagationsAlong(d, k)) = 1

\* C18: on a started layer getService returns only 'found' or 'undeclared':
\* a lookup that passes the declaration check finds exactly one provider,
\* never 'not-found' or 'ambiguous'.
C18_FoundOrUndeclared ==
    Completed("getService", "started") =>
        /\ result.outcome = "returned"
        /\ result.value.type \in {"found", "undeclared"}
        /\ isDeclaredDependency(declaredDependencies, lastCall.packageName,
                                lastCall.spec) =>
              /\ serviceLookup[lastCall.spec].type = "found"
              /\ result.value = serviceLookup[lastCall.spec]

\* A package has looked up the qualified reference it declared and got the
\* one provider, on a layer whose index answers 'not-found' for the same
\* interface without qualifier.
C18_Witness ==
    /\ Completed("getService", "started")
    /\ lastCall.spec.qualifier # Absent
    /\ isDeclaredDependency(declaredDependencies, lastCall.packageName, lastCall.spec)
    /\ result = Returned(serviceLookup[lastCall.spec])
    /\ result.value.type = "found"
    /\ serviceLookup[InterfaceSpec(lastCall.spec.interfaceName, Absent)].type
          = "not-found"

\* The decrements that destroyService can still apply: a service that is not
\* destroyed takes as many as its reference count, and at least one.
RECURSIVE WorkOf(_)
WorkOf(S) ==
    IF S = {} THEN 0
    ELSE LET s == CHOOSE x \in S : TRUE
             w == IF svcState[s] = "destroyed" THEN 0
                  ELSE IF refCount[s] > 1 THEN refCount[s] ELSE 1
         IN  w + WorkOf(S \ {s})

Work == WorkOf(Ids)

Destroying == lastCall.op = "destroy" /\ stack # <<>>

\* A step of destroy() uses up work, or leaves a call, or moves on in the
\* loop of the call at hand.
DestroyProgress ==
    Destroying =>
        \/ Work' < Work
        \/ Work' = Work /\ Len(stack') < Len(stack)
        \/ /\ Work' = Work
           /\ Len(stack') = Len(stack)
           /\ Top'.fn = Top.fn /\ Top'.service = Top.service
           /\ Top'.i > Top.i

\* C19: destroy() terminates in every layer state and on every graph, cycles
\* and services left constructing or with inflated reference counts by a
\* raised start() included: each of its steps makes progress in a
\* well-founded order, and a running destroy() always returns.
C19_DestroyTerminates ==
    /\ [][DestroyProgress]_vars
    /\ (Destroying ~> (stack = <<>> /\ state = "destroyed"))

\* destroy() has returned on a cyclic graph after start() raised twice: a
\* service had been left constructing and another held an inflated count.
C19_Witness ==
    /\ Completed("destroy", "not-started")
    /\ starts = MaxStarts
    /\ ~Acyclic
    /\ \E s \in Ids : ctorCalls[s] = 0 /\ svcState[s] = "destroyed"
    /\ \E s \in Ids : ctorCalls[s] = 1 /\ svcState[s] = "constructed"

====
